---- MODULE Spec2Model ----
(***************************************************************************)
(* The in-memory task store of the TodoList application                    *)
(* (app/services/task_service.py) and the callers that share its single    *)
(* instance.  tasks_data is the list of task dicts; every method of        *)
(* TaskService is an operator from the list (and the call's arguments) to  *)
(* an outcome: the list afterwards, the value returned, the exception      *)
(* raised.  One action per call applies the operator to the shared store.  *)
(***************************************************************************)
EXTENDS Integers, Sequences, FiniteSets, TLC

\* create_task is not called once it would assign an id above MaxId.
MaxId == 2

\* Optional[T]: None, or a value of T.
None == <<>>

Some(x) == <<x>>

Opt(S) == {None} \cup {Some(x) : x \in S}

\* The texts and flags a caller may send.
Titles == {"", "A"}

Descriptions == {"", "B"}

\* The ids a caller may ask for: every id the store can hold and one it never holds.
TaskIds == 1..(MaxId + 1)

\* TaskBase / TaskCreate: title and description are str, completed is bool.
TaskCreate == [title : Titles, description : Descriptions, completed : BOOLEAN]

\* TaskUpdate: each field Optional, None when the caller left it out.
TaskUpdate == [title : Opt(Titles), description : Opt(Descriptions), completed : Opt(BOOLEAN)]

\* Task(id=..., title=..., description=..., completed=...)
Task(id, title, description, completed) ==
  [id |-> id, title |-> title, description |-> description, completed |-> completed]

\* TaskNotFoundException(task_id): HTTP 404 with the id in the detail text.
TaskNotFoundException(task_id) ==
  [status_code |-> 404, detail |-> <<"Task with ID ", task_id, " not found">>]

\* max(xs, default=d)
Max(S, default) == IF S = {} THEN default ELSE CHOOSE m \in S : \A x \in S : x <= m

\* min of a non-empty set of indexes
Min(S) == CHOOSE m \in S : \A x \in S : m <= x

\* next((i for i, task in enumerate(tasks) if task["id"] == task_id), None),
\* with Python's 0-based indexes.
FirstIndex(tasks, task_id) ==
  LET hits == {i \in 0..(Len(tasks) - 1) : tasks[i + 1].id = task_id}
  IN  IF hits = {} THEN None ELSE Some(Min(hits))

\* next((task for task in tasks if task["id"] == task_id), None)
FirstTask(tasks, task_id) ==
  LET i == FirstIndex(tasks, task_id)
  IN  IF i = None THEN None ELSE Some(tasks[i[1] + 1])

\* Slip: list.pop() with the index left out removes the last element.
Pop_last(tasks, index) == SubSeq(tasks, 1, Len(tasks) - 1)

\* list.pop(index), 0-based
Pop(tasks, index) ==
  [k \in 1..(Len(tasks) - 1) |-> IF k <= index THEN tasks[k] ELSE tasks[k + 1]]

\* What a call leaves behind: the list, the value returned, the exception raised.
Return(tasks, value) == [tasks |-> tasks, ret |-> value, raised |-> None]

Raise(tasks, exception) == [tasks |-> tasks, ret |-> None, raised |-> Some(exception)]

\* Slip: the list is returned newest first.
get_all_tasks_reversed(tasks) ==
  Return(tasks,
         [i \in 1..Len(tasks) |->
            Task(tasks[Len(tasks) + 1 - i].id, tasks[Len(tasks) + 1 - i].title,
                 tasks[Len(tasks) + 1 - i].description, tasks[Len(tasks) + 1 - i].completed)])

\* TaskService.get_all_tasks
get_all_tasks(tasks) ==
  Return(tasks,
         [i \in 1..Len(tasks) |->
            Task(tasks[i].id, tasks[i].title, tasks[i].description, tasks[i].completed)])

\* Slip: description filled from the title.
get_task_by_id_swapped(tasks, task_id) ==
  LET task_dict == FirstTask(tasks, task_id)
  IN  IF task_dict # None
      THEN Return(tasks, Some(Task(task_dict[1].id, task_dict[1].title,
                                   task_dict[1].title, task_dict[1].completed)))
      ELSE Return(tasks, None)

\* TaskService.get_task_by_id
get_task_by_id(tasks, task_id) ==
  LET task_dict == FirstTask(tasks, task_id)
  IN  IF task_dict # None
      THEN Return(tasks, Some(Task(task_dict[1].id, task_dict[1].title,
                                   task_dict[1].description, task_dict[1].completed)))
      ELSE Return(tasks, None)

\* Slip: an unknown id is reported with the validation exception (400).
get_task_by_id_or_404_invalid(tasks, task_id) ==
  LET call == get_task_by_id(tasks, task_id)
  IN  IF call.ret = None
      THEN Raise(call.tasks, [status_code |-> 400, detail |-> <<"Invalid task ID">>])
      ELSE Return(call.tasks, call.ret[1])

\* TaskService.get_task_by_id_or_404
get_task_by_id_or_404(tasks, task_id) ==
  LET call == get_task_by_id(tasks, task_id)
  IN  IF call.ret = None
      THEN Raise(call.tasks, TaskNotFoundException(task_id))
      ELSE Return(call.tasks, call.ret[1])

\* Slip: the id is taken from the length of the list.
NewId_len(tasks) == Len(tasks) + 1

\* Slip: the smallest id not in the list is handed out, filling gaps.
NewId_gap(tasks) ==
  Min({n \in 1..(Len(tasks) + 1) : \A i \in 1..Len(tasks) : tasks[i].id # n})

\* new_id = max([task["id"] for task in self.tasks_data], default=0) + 1
NewId(tasks) == Max({tasks[i].id : i \in 1..Len(tasks)}, 0) + 1

\* Slip: the new task is inserted at the head of the list.
create_task_prepend(tasks, task_data) ==
  LET new_id   == NewId(tasks)
      new_task == [id |-> new_id, title |-> task_data.title,
                   description |-> task_data.description,
                   completed |-> task_data.completed]
  IN  Return(<<new_task>> \o tasks,
             Task(new_task.id, new_task.title, new_task.description, new_task.completed))

\* TaskService.create_task
create_task(tasks, task_data) ==
  LET new_id   == NewId(tasks)
      new_task == [id |-> new_id, title |-> task_data.title,
                   description |-> task_data.description,
                   completed |-> task_data.completed]
  IN  Return(Append(tasks, new_task),
             Task(new_task.id, new_task.title, new_task.description, new_task.completed))

\* Slip: an omitted completed is written as False (a full replace, not a patch).
ApplyPatch_replace(task_dict, task_data) ==
  [id          |-> task_dict.id,
   title       |-> IF task_data.title # None THEN task_data.title[1] ELSE task_dict.title,
   description |-> IF task_data.description # None
                   THEN task_data.description[1] ELSE task_dict.description,
   completed   |-> IF task_data.completed # None THEN task_data.completed[1] ELSE FALSE]

\* Slip: "if task_data.title:" -- a falsy value counts as absent.
ApplyPatch_truthy(task_dict, task_data) ==
  [id          |-> task_dict.id,
   title       |-> IF task_data.title # None /\ task_data.title # Some("")
                   THEN task_data.title[1] ELSE task_dict.title,
   description |-> IF task_data.description # None /\ task_data.description # Some("")
                   THEN task_data.description[1] ELSE task_dict.description,
   completed   |-> IF task_data.completed # None /\ task_data.completed # Some(FALSE)
                   THEN task_data.completed[1] ELSE task_dict.completed]

\* Slip: a completed in the patch flips the stored flag.
ApplyPatch_toggle(task_dict, task_data) ==
  [id          |-> task_dict.id,
   title       |-> IF task_data.title # None THEN task_data.title[1] ELSE task_dict.title,
   description |-> IF task_data.description # None
                   THEN task_data.description[1] ELSE task_dict.description,
   completed   |-> IF task_data.completed # None
                   THEN ~task_dict.completed ELSE task_dict.completed]

\* The three "if task_data.<field> is not None" assignments of update_task.
ApplyPatch(task_dict, task_data) ==
  [id          |-> task_dict.id,
   title       |-> IF task_data.title # None THEN task_data.title[1] ELSE task_dict.title,
   description |-> IF task_data.description # None
                   THEN task_data.description[1] ELSE task_dict.description,
   completed   |-> IF task_data.completed # None
                   THEN task_data.completed[1] ELSE task_dict.completed]

\* Slip: the task is removed and appended again under a fresh id.
update_task_recreate(tasks, task_id, task_data) ==
  LET i == FirstIndex(tasks, task_id)
  IN  IF i = None
      THEN Return(tasks, None)
      ELSE LET rest      == Pop(tasks, i[1])
               patched   == ApplyPatch(tasks[i[1] + 1], task_data)
               task_dict == [patched EXCEPT !.id = NewId(tasks)]
           IN  Return(Append(rest, task_dict),
                      Some(Task(task_dict.id, task_dict.title,
                                task_dict.description, task_dict.completed)))

\* Slip: the patch is written into every dict of the list.
update_task_every(tasks, task_id, task_data) ==
  LET i == FirstIndex(tasks, task_id)
  IN  IF i = None
      THEN Return(tasks, None)
      ELSE LET task_dict == ApplyPatch(tasks[i[1] + 1], task_data)
           IN  Return([k \in 1..Len(tasks) |-> ApplyPatch(tasks[k], task_data)],
                      Some(Task(task_dict.id, task_dict.title,
                                task_dict.description, task_dict.completed)))

\* Slip: the patch is applied to a copy of the dict; the list keeps the old one.
update_task_copy(tasks, task_id, task_data) ==
  LET i == FirstIndex(tasks, task_id)
  IN  IF i = None
      THEN Return(tasks, None)
      ELSE LET task_dict == ApplyPatch(tasks[i[1] + 1], task_data)
           IN  Return(tasks,
                      Some(Task(task_dict.id, task_dict.title,
                                task_dict.description, task_dict.completed)))

\* TaskService.update_task: the first dict with the id is mutated in place.
update_task(tasks, task_id, task_data) ==
  LET i == FirstIndex(tasks, task_id)
  IN  IF i = None
      THEN Return(tasks, None)
      ELSE LET task_dict == ApplyPatch(tasks[i[1] + 1], task_data)
           IN  Return([tasks EXCEPT ![i[1] + 1] = task_dict],
                      Some(Task(task_dict.id, task_dict.title,
                                task_dict.description, task_dict.completed)))

\* Slip: an unknown id is inserted as an empty task before the exception.
update_task_or_404_upsert(tasks, task_id, task_data) ==
  LET call == update_task(tasks, task_id, task_data)
  IN  IF call.ret = None
      THEN Raise(Append(call.tasks, Task(task_id, "", "", FALSE)),
                 TaskNotFoundException(task_id))
      ELSE Return(call.tasks, call.ret[1])

\* TaskService.update_task_or_404
update_task_or_404(tasks, task_id, task_data) ==
  LET call == update_task(tasks, task_id, task_data)
  IN  IF call.ret = None
      THEN Raise(call.tasks, TaskNotFoundException(task_id))
      ELSE Return(call.tasks, call.ret[1])

\* Slip: answers True without removing the task.
delete_task_keep(tasks, task_id) ==
  IF FirstIndex(tasks, task_id) = None THEN Return(tasks, FALSE) ELSE Return(tasks, TRUE)

\* TaskService.delete_task
delete_task(tasks, task_id) ==
  LET task_index == FirstIndex(tasks, task_id)
  IN  IF task_index # None
      THEN Return(Pop(tasks, task_index[1]), TRUE)
      ELSE Return(tasks, FALSE)

\* Slip: the check of the result is left out.
delete_task_or_404_unchecked(tasks, task_id) ==
  LET call == delete_task(tasks, task_id)
  IN  Return(call.tasks, call.ret)

\* TaskService.delete_task_or_404
delete_task_or_404(tasks, task_id) ==
  LET call == delete_task(tasks, task_id)
  IN  IF ~call.ret
      THEN Raise(call.tasks, TaskNotFoundException(task_id))
      ELSE Return(call.tasks, call.ret)

(***************************************************************************)
(* State.  tasks_data is task_service_instance.tasks_data.  result is the  *)
(* last call made on the store and what it gave back.  assigned and        *)
(* created are history: the ids create_task has ever returned, and the     *)
(* ids of the tasks now alive in the order they were created.              *)
(***************************************************************************)
VARIABLES tasks_data, result, assigned, created, threads

vars == <<threads, tasks_data, result, assigned, created>>

\* The threads that may call the one TaskService, and a thread that is in no call.
Threads == {"t1", "t2"}

Idle == [pc |-> "idle"]

\* The record of one call.
Called(op, task_id, arg, call) ==
  [op |-> op, task_id |-> task_id, arg |-> arg, ret |-> call.ret, raised |-> call.raised]

\* TaskService.__init__: the store starts empty.
Init ==
  /\ tasks_data = <<>>
  /\ result = [op |-> "__init__", task_id |-> 0, arg |-> None, ret |-> None, raised |-> None]
  /\ assigned = {}
  /\ created = <<>>
  /\ threads = [t \in Threads |-> Idle]

Without(ids, task_id) == SelectSeq(ids, LAMBDA x : x # task_id)

GetAllTasks ==
  LET call == get_all_tasks(tasks_data)
  IN  /\ tasks_data' = call.tasks
      /\ UNCHANGED threads
      /\ result' = Called("get_all_tasks", 0, None, call)
      /\ UNCHANGED <<assigned, created>>

GetTaskById(task_id) ==
  LET call == get_task_by_id(tasks_data, task_id)
  IN  /\ tasks_data' = call.tasks
      /\ UNCHANGED threads
      /\ result' = Called("get_task_by_id", task_id, None, call)
      /\ UNCHANGED <<assigned, created>>

GetTaskByIdOr404(task_id) ==
  LET call == get_task_by_id_or_404(tasks_data, task_id)
  IN  /\ tasks_data' = call.tasks
      /\ UNCHANGED threads
      /\ result' = Called("get_task_by_id_or_404", task_id, None, call)
      /\ UNCHANGED <<assigned, created>>

CreateTask(task_data) ==
  LET call == create_task(tasks_data, task_data)
  IN  /\ NewId(tasks_data) <= MaxId
      /\ tasks_data' = call.tasks
      /\ UNCHANGED threads
      /\ result' = Called("create_task", 0, Some(task_data), call)
      /\ assigned' = assigned \cup {call.ret.id}
      /\ created' = Append(created, call.ret.id)

UpdateTask(task_id, task_data) ==
  LET call == update_task(tasks_data, task_id, task_data)
  IN  /\ tasks_data' = call.tasks
      /\ UNCHANGED threads
      /\ result' = Called("update_task", task_id, Some(task_data), call)
      /\ UNCHANGED <<assigned, created>>

UpdateTaskOr404(task_id, task_data) ==
  LET call == update_task_or_404(tasks_data, task_id, task_data)
  IN  /\ tasks_data' = call.tasks
      /\ UNCHANGED threads
      /\ result' = Called("update_task_or_404", task_id, Some(task_data), call)
      /\ UNCHANGED <<assigned, created>>

DeleteTask(task_id) ==
  LET call == delete_task(tasks_data, task_id)
  IN  /\ tasks_data' = call.tasks
      /\ UNCHANGED threads
      /\ result' = Called("delete_task", task_id, None, call)
      /\ created' = IF call.ret THEN Without(created, task_id) ELSE created
      /\ UNCHANGED assigned

DeleteTaskOr404(task_id) ==
  LET call == delete_task_or_404(tasks_data, task_id)
  IN  /\ tasks_data' = call.tasks
      /\ UNCHANGED threads
      /\ result' = Called("delete_task_or_404", task_id, None, call)
      /\ created' = IF call.raised = None THEN Without(created, task_id) ELSE created
      /\ UNCHANGED assigned

\* Callers of the methods that answer an unknown id with None / False.
Next ==
  \/ GetAllTasks
  \/ \E task_id \in TaskIds : GetTaskById(task_id)
  \/ \E task_data \in TaskCreate : CreateTask(task_data)
  \/ \E task_id \in TaskIds, task_data \in TaskUpdate : UpdateTask(task_id, task_data)
  \/ \E task_id \in TaskIds : DeleteTask(task_id)

Spec == Init /\ [][Next]_vars

\* Callers of the methods that answer an unknown id with TaskNotFoundException.
NextStrict ==
  \/ \E task_id \in TaskIds : GetTaskByIdOr404(task_id)
  \/ \E task_data \in TaskCreate : CreateTask(task_data)
  \/ \E task_id \in TaskIds, task_data \in TaskUpdate : UpdateTaskOr404(task_id, task_data)
  \/ \E task_id \in TaskIds : DeleteTaskOr404(task_id)

SpecStrict == Init /\ [][NextStrict]_vars

(***************************************************************************)
(* Properties of the store.                                                *)
(***************************************************************************)

\* The ids now in the list.
IdsOf(tasks) == {tasks[i].id : i \in 1..Len(tasks)}

\* C1: an id returned by create_task is strictly greater than every id
\* create_task has returned before, also the ids of tasks deleted since: no
\* id is handed out twice.
C1_IdNeverReassigned ==
  [][result'.op = "create_task" => \A id \in assigned : result'.ret.id > id]_vars

\* C2: create_task gives the new task the id max(ids in the list, 0 when the
\* list is empty) + 1, appends it as the last element and returns it; the
\* first create on the empty store returns id 1 and the next returns id 2.
C2_CreateAssignsNextId ==
  [][result'.op = "create_task" =>
       LET new == result'.ret
       IN  /\ \A id \in IdsOf(tasks_data) : new.id > id
           /\ new.id - 1 \in IdsOf(tasks_data) \cup {0}
           /\ (tasks_data = <<>> => new.id = 1)
           /\ (IdsOf(tasks_data) = {1} => new.id = 2)
           /\ Len(tasks_data') = Len(tasks_data) + 1
           /\ SubSeq(tasks_data', 1, Len(tasks_data)) = tasks_data
           /\ tasks_data'[Len(tasks_data')] = new
           /\ new.title = result'.arg[1].title
           /\ new.description = result'.arg[1].description
           /\ new.completed = result'.arg[1].completed]_vars

C2_Witness ==
  /\ result.op = "create_task"
  /\ result.ret.id = 2
  /\ Len(tasks_data) = 2
  /\ tasks_data[2] = result.ret

\* C3: for every id and every patch, get / update / delete return
\* None / None / False exactly when the _or_404 variant raises
\* TaskNotFoundException for that id; otherwise the _or_404 variant returns
\* the same payload and leaves the same list.
C3_SoftStrictSymmetry ==
  \A task_id \in TaskIds :
    LET get     == get_task_by_id(tasks_data, task_id)
        get404  == get_task_by_id_or_404(tasks_data, task_id)
        del     == delete_task(tasks_data, task_id)
        del404  == delete_task_or_404(tasks_data, task_id)
    IN  /\ (get.ret = None) <=> (get404.raised # None)
        /\ get404.raised # None => get404.raised = Some(TaskNotFoundException(task_id))
        /\ get404.raised = None => get404.ret = get.ret[1]
        /\ get404.tasks = get.tasks
        /\ (del.ret = FALSE) <=> (del404.raised # None)
        /\ del404.raised # None => del404.raised = Some(TaskNotFoundException(task_id))
        /\ del404.raised = None => del404.ret = del.ret
        /\ del404.tasks = del.tasks
        /\ \A task_data \in TaskUpdate :
             LET upd    == update_task(tasks_data, task_id, task_data)
                 upd404 == update_task_or_404(tasks_data, task_id, task_data)
             IN  /\ (upd.ret = None) <=> (upd404.raised # None)
                 /\ upd404.raised # None =>
                      upd404.raised = Some(TaskNotFoundException(task_id))
                 /\ upd404.raised = None => upd404.ret = upd.ret[1]
                 /\ upd404.tasks = upd.tasks

\* A strict delete has raised for an id on which the soft delete returns False,
\* with a task in the store on which both succeed.
C3_Witness ==
  /\ result.op = "delete_task_or_404"
  /\ result.raised = Some(TaskNotFoundException(result.task_id))
  /\ delete_task(tasks_data, result.task_id).ret = FALSE
  /\ \E task_id \in TaskIds : delete_task_or_404(tasks_data, task_id).raised = None

\* C4: for an existing task, update_task with a patch that leaves a field as
\* None leaves that field's stored value unchanged, for every subset of
\* omitted fields, in the list and in the task returned.
C4_PartialUpdatePreservesOmitted ==
  \A task_id \in TaskIds, task_data \in TaskUpdate :
    LET before == FirstTask(tasks_data, task_id)
        call   == update_task(tasks_data, task_id, task_data)
        after  == FirstTask(call.tasks, task_id)
    IN  before # None =>
          /\ after # None
          /\ call.ret # None
          /\ task_data.title = None =>
               /\ after[1].title = before[1].title
               /\ call.ret[1].title = before[1].title
          /\ task_data.description = None =>
               /\ after[1].description = before[1].description
               /\ call.ret[1].description = before[1].description
          /\ task_data.completed = None =>
               /\ after[1].completed = before[1].completed
               /\ call.ret[1].completed = before[1].completed

\* A patch carrying only completed = true has been applied to a task that
\* keeps its title "A" and description "B".
C4_Witness ==
  /\ result.op = "update_task"
  /\ result.arg = Some([title |-> None, description |-> None, completed |-> Some(TRUE)])
  /\ result.ret = Some(Task(1, "A", "B", TRUE))
  /\ FirstTask(tasks_data, 1) = Some(Task(1, "A", "B", TRUE))

\* C5: right after delete_task(id) returned True, get_task_by_id(id) returns
\* None and a second delete_task(id) returns False.
C5_DeleteIsTerminal ==
  result.op = "delete_task" =>
    (result.ret =>
       /\ get_task_by_id(tasks_data, result.task_id).ret = None
       /\ delete_task(tasks_data, result.task_id).ret = FALSE
       /\ delete_task(tasks_data, result.task_id).tasks = tasks_data)

\* The first of two tasks has just been deleted.
C5_Witness ==
  /\ result.op = "delete_task"
  /\ result.ret
  /\ result.task_id = 1
  /\ Len(tasks_data) = 1

\* C6: right after create_task(t), get_task_by_id(id of the created task)
\* returns a task equal to the created one in id, title, description and
\* completed, for every title, description and completed.
C6_CreateGetRoundTrip ==
  result.op = "create_task" =>
    LET got == get_task_by_id(tasks_data, result.ret.id).ret
    IN  /\ got # None
        /\ got[1].id = result.ret.id
        /\ got[1].title = result.ret.title
        /\ got[1].description = result.ret.description
        /\ got[1].completed = result.ret.completed
        /\ got[1].title = result.arg[1].title
        /\ got[1].description = result.arg[1].description
        /\ got[1].completed = result.arg[1].completed

\* A second task, completed at creation, has just been created.
C6_Witness ==
  /\ result.op = "create_task"
  /\ result.arg = Some([title |-> "A", description |-> "B", completed |-> TRUE])
  /\ result.ret.id = 2
  /\ get_task_by_id(tasks_data, 2).ret = Some(Task(2, "A", "B", TRUE))

\* C7: get_all_tasks returns every task in the list, each exactly once, in
\* the order the tasks were created, and raises nothing; on the empty store
\* it returns the empty list.
C7_ListAllInCreationOrder ==
  LET call == get_all_tasks(tasks_data)
  IN  /\ call.raised = None
      /\ call.tasks = tasks_data
      /\ Len(call.ret) = Len(tasks_data)
      /\ \A i \in 1..Len(tasks_data) :
           call.ret[i] = Task(tasks_data[i].id, tasks_data[i].title,
                              tasks_data[i].description, tasks_data[i].completed)
      /\ [i \in 1..Len(call.ret) |-> call.ret[i].id] = created
      /\ (tasks_data = <<>> => call.ret = <<>>)
      /\ (result.op = "get_all_tasks" => result.ret = call.ret)

\* get_all_tasks has returned two tasks, the older one first.
C7_Witness ==
  /\ result.op = "get_all_tasks"
  /\ Len(result.ret) = 2
  /\ created = <<1, 2>>
  /\ result.ret[1].id = 1
  /\ result.ret[2].id = 2

\* C8: in every state reached by create, update and delete calls, at most one
\* task in the list has any given id.
C8_UniqueIds ==
  \A i, j \in 1..Len(tasks_data) : tasks_data[i].id = tasks_data[j].id => i = j

\* A task has been created next to the task that survived a delete: ids 1 and 2
\* had been assigned, the task with id 2 was created again.
C8_Witness ==
  /\ Len(tasks_data) = 2
  /\ result.op = "create_task"
  /\ created = <<1, 2>>
  /\ result.ret.id = 2

\* C9: no update_task, with any patch, changes the id of any task in the list,
\* and the task it returns carries the id that was passed in.
C9_UpdateKeepsIds ==
  \A task_id \in TaskIds, task_data \in TaskUpdate :
    LET call == update_task(tasks_data, task_id, task_data)
    IN  /\ Len(call.tasks) = Len(tasks_data)
        /\ \A i \in 1..Len(tasks_data) : call.tasks[i].id = tasks_data[i].id
        /\ call.ret # None => call.ret[1].id = task_id
        /\ (result.op = "update_task" => (result.ret # None => result.ret[1].id = result.task_id))

\* The second of two tasks has been updated in every field.
C9_Witness ==
  /\ result.op = "update_task"
  /\ result.task_id = 2
  /\ result.arg = Some([title |-> Some(""), description |-> Some(""), completed |-> Some(TRUE)])
  /\ result.ret = Some(Task(2, "", "", TRUE))
  /\ Len(tasks_data) = 2

\* C10: every task in the list has a non-empty title.
C10_TitleNonEmpty ==
  \A i \in 1..Len(tasks_data) : tasks_data[i].title # ""

(***************************************************************************)
(* The REST router (app/routers/tasks.py).  Each handler calls one method  *)
(* of the shared TaskService; FastAPI turns what the handler returns or    *)
(* raises into the HTTP response.                                          *)
(***************************************************************************)

\* The JSON body of a create request as sent: title and description present
\* (a string) or missing, completed one of these JSON texts.
CompletedTexts == {"missing", "true", "false", "\"not_a_boolean\""}

CreateBodies == [title : Opt(Titles), description : Opt(Descriptions), completed : CompletedTexts]

\* Slip: description gets a default, so a body without it passes.
ValidateTaskCreate_lenient(body) ==
  IF body.title = None \/ body.completed \notin {"missing", "true", "false"}
  THEN None
  ELSE Some([title       |-> body.title[1],
             description |-> IF body.description = None THEN "" ELSE body.description[1],
             completed   |-> body.completed = "true"])

\* The body parsed into TaskCreate (task_data: TaskCreate): title and
\* description are required, completed defaults to False and must be a bool;
\* None when the body is rejected.
ValidateTaskCreate(body) ==
  IF \/ body.title = None
     \/ body.description = None
     \/ body.completed \notin {"missing", "true", "false"}
  THEN None
  ELSE Some([title       |-> body.title[1],
             description |-> body.description[1],
             completed   |-> body.completed = "true"])

\* The response of a route: an HTTPException raised by the handler gives its
\* status_code and {"detail": detail}, a return gives the route's status_code
\* and the returned value as body.
HttpResponse(call, status_code) ==
  IF call.raised # None
  THEN [tasks |-> call.tasks, status_code |-> call.raised[1].status_code,
        body |-> [detail |-> call.raised[1].detail]]
  ELSE [tasks |-> call.tasks, status_code |-> status_code, body |-> call.ret]

\* The response to a request whose body does not validate: the handler is not called.
UnprocessableEntity(tasks) ==
  [tasks |-> tasks, status_code |-> 422, body |-> [detail |-> <<"validation error">>]]

\* @router.get("/")
router_get_all_tasks(tasks) == HttpResponse(get_all_tasks(tasks), 200)

\* Slip: the handler calls the method that returns None.
router_get_task_by_id_soft(tasks, task_id) == HttpResponse(get_task_by_id(tasks, task_id), 200)

\* @router.get("/{task_id}")
router_get_task_by_id(tasks, task_id) == HttpResponse(get_task_by_id_or_404(tasks, task_id), 200)

\* @router.post("/", status_code=201)
router_create_task(tasks, body) ==
  LET task_data == ValidateTaskCreate(body)
  IN  IF task_data = None
      THEN UnprocessableEntity(tasks)
      ELSE HttpResponse(create_task(tasks, task_data[1]), 201)

\* @router.put("/{task_id}")
router_update_task(tasks, task_id, task_data) ==
  HttpResponse(update_task_or_404(tasks, task_id, task_data), 200)

\* @router.delete("/{task_id}", status_code=204): the handler returns None.
router_delete_task(tasks, task_id) ==
  LET call == delete_task_or_404(tasks, task_id)
  IN  HttpResponse(IF call.raised # None THEN call ELSE Return(call.tasks, None), 204)

\* The record of one request and its response.
Requested(op, task_id, arg, response) ==
  [op |-> op, task_id |-> task_id, arg |-> arg,
   ret |-> [status_code |-> response.status_code, body |-> response.body],
   raised |-> None]

RestGetAllTasks ==
  LET response == router_get_all_tasks(tasks_data)
  IN  /\ tasks_data' = response.tasks
      /\ UNCHANGED threads
      /\ result' = Requested("GET /api/v1/tasks/", 0, None, response)
      /\ UNCHANGED <<assigned, created>>

RestGetTaskById(task_id) ==
  LET response == router_get_task_by_id(tasks_data, task_id)
  IN  /\ tasks_data' = response.tasks
      /\ UNCHANGED threads
      /\ result' = Requested("GET /api/v1/tasks/{task_id}", task_id, None, response)
      /\ UNCHANGED <<assigned, created>>

RestCreateTask(body) ==
  LET response == router_create_task(tasks_data, body)
  IN  /\ ValidateTaskCreate(body) # None => NewId(tasks_data) <= MaxId
      /\ tasks_data' = response.tasks
      /\ UNCHANGED threads
      /\ result' = Requested("POST /api/v1/tasks/", 0, Some(body), response)
      /\ assigned' = IF response.status_code = 201
                     THEN assigned \cup {response.body.id} ELSE assigned
      /\ created' = IF response.status_code = 201
                    THEN Append(created, response.body.id) ELSE created

RestUpdateTask(task_id, task_data) ==
  LET response == router_update_task(tasks_data, task_id, task_data)
  IN  /\ tasks_data' = response.tasks
      /\ UNCHANGED threads
      /\ result' = Requested("PUT /api/v1/tasks/{task_id}", task_id, Some(task_data), response)
      /\ UNCHANGED <<assigned, created>>

RestDeleteTask(task_id) ==
  LET response == router_delete_task(tasks_data, task_id)
  IN  /\ tasks_data' = response.tasks
      /\ UNCHANGED threads
      /\ result' = Requested("DELETE /api/v1/tasks/{task_id}", task_id, None, response)
      /\ created' = IF response.status_code = 204 THEN Without(created, task_id) ELSE created
      /\ UNCHANGED assigned

\* Clients of the REST router.
NextRest ==
  \/ RestGetAllTasks
  \/ \E task_id \in TaskIds : RestGetTaskById(task_id)
  \/ \E body \in CreateBodies : RestCreateTask(body)
  \/ \E task_id \in TaskIds, task_data \in TaskUpdate : RestUpdateTask(task_id, task_data)
  \/ \E task_id \in TaskIds : RestDeleteTask(task_id)

SpecRest == Init /\ [][NextRest]_vars

(***************************************************************************)
(* The GraphQL resolvers (app/graphql/resolvers.py) on the same            *)
(* TaskService.  A resolver returns the value of its field or raises       *)
(* GraphQLError; the execution puts the value under data, or null under    *)
(* data and the error under errors, and the transport answers 200.         *)
(***************************************************************************)

FieldNames == {"title", "description", "completed"}

\* TaskInput: title and description required, completed defaults to False.
TaskInput == TaskCreate

\* TaskUpdateInput as the resolver receives it: every field None or a value.
TaskUpdateInput == TaskUpdate

\* An update input as written in the document: each field left out, written
\* as null, or written with a value.
SentField(S) ==
  {[supplied |-> FALSE, value |-> None]} \cup [supplied : {TRUE}, value : Opt(S)]

SentUpdateInputs ==
  [title : SentField(Titles), description : SentField(Descriptions),
   completed : SentField(BOOLEAN)]

\* The input object built from the document: a field left out takes the
\* default of TaskUpdateInput, None; a field written as null is None as well.
TaskUpdateInputOf(sent) ==
  [title       |-> IF sent.title.supplied THEN sent.title.value ELSE None,
   description |-> IF sent.description.supplied THEN sent.description.value ELSE None,
   completed   |-> IF sent.completed.supplied THEN sent.completed.value ELSE None]

\* convert_to_graphql_task, and the Task(...) built inline by the resolvers
convert_to_graphql_task(pydantic_task) ==
  [id |-> pydantic_task.id, title |-> pydantic_task.title,
   description |-> pydantic_task.description, completed |-> pydantic_task.completed]

\* GraphQLError(message=str(e.detail), extensions={...})
GraphQLError(e, task_id) ==
  [message    |-> e.detail,
   extensions |-> [code |-> "TASK_NOT_FOUND", task_id |-> task_id,
                   http_status |-> e.status_code]]

\* Slip: completed is always forwarded, an absent one as False.
UpdateData_completed(task_input) ==
  [f \in {g \in FieldNames : task_input[g] # None} \cup {"completed"} |->
     IF task_input[f] # None THEN task_input[f][1] ELSE FALSE]

\* update_data: the dict with one key per field of the input that is not None.
UpdateData(task_input) ==
  [f \in {g \in FieldNames : task_input[g] # None} |-> task_input[f][1]]

\* TaskUpdate(**update_data): a field without a key keeps the default None.
TaskUpdateOf(update_data) ==
  [title       |-> IF "title" \in DOMAIN update_data
                   THEN Some(update_data["title"]) ELSE None,
   description |-> IF "description" \in DOMAIN update_data
                   THEN Some(update_data["description"]) ELSE None,
   completed   |-> IF "completed" \in DOMAIN update_data
                   THEN Some(update_data["completed"]) ELSE None]

\* Slip: the resolver pops the dicts off the list while converting them.
Query_tasks_drain(tasks) ==
  LET call == get_all_tasks(tasks)
  IN  Return(<<>>,
             [i \in 1..Len(call.ret) |-> convert_to_graphql_task(call.ret[i])])

\* Query.tasks
Query_tasks(tasks) ==
  LET call == get_all_tasks(tasks)
  IN  Return(call.tasks,
             [i \in 1..Len(call.ret) |-> convert_to_graphql_task(call.ret[i])])

\* Slip: the resolvers look the task up in a TaskService of their own.
Query_task_own_service(tasks, task_id) ==
  LET call == get_task_by_id(<<>>, task_id)
  IN  IF call.ret = None
      THEN Return(tasks, None)
      ELSE Return(tasks, Some(convert_to_graphql_task(call.ret[1])))

\* Query.task
Query_task(tasks, task_id) ==
  LET call == get_task_by_id(tasks, task_id)
  IN  IF call.ret = None
      THEN Return(call.tasks, None)
      ELSE Return(call.tasks, Some(convert_to_graphql_task(call.ret[1])))

\* Slip: the strict field answers like the lenient one, null and no error.
Query_task_strict_null(tasks, task_id) ==
  LET call == get_task_by_id(tasks, task_id)
  IN  IF call.ret = None
      THEN Return(call.tasks, None)
      ELSE Return(call.tasks, convert_to_graphql_task(call.ret[1]))

\* Query.task_strict
Query_task_strict(tasks, task_id) ==
  LET call == get_task_by_id_or_404(tasks, task_id)
  IN  IF call.raised # None
      THEN Raise(call.tasks, GraphQLError(call.raised[1], task_id))
      ELSE Return(call.tasks, convert_to_graphql_task(call.ret))

\* Mutation.create_task
Mutation_create_task(tasks, task_input) ==
  LET task_create == [title |-> task_input.title, description |-> task_input.description,
                      completed |-> task_input.completed]
      call        == create_task(tasks, task_create)
  IN  Return(call.tasks, convert_to_graphql_task(call.ret))

\* Slip: the lenient mutation calls the method that raises.
Mutation_update_task_raising(tasks, task_id, task_input) ==
  LET call == update_task_or_404(tasks, task_id, TaskUpdateOf(UpdateData(task_input)))
  IN  IF call.raised # None
      THEN Raise(call.tasks, GraphQLError(call.raised[1], task_id))
      ELSE Return(call.tasks, Some(convert_to_graphql_task(call.ret)))

\* Mutation.update_task
Mutation_update_task(tasks, task_id, task_input) ==
  LET task_update == TaskUpdateOf(UpdateData(task_input))
      call        == update_task(tasks, task_id, task_update)
  IN  IF call.ret = None
      THEN Return(call.tasks, None)
      ELSE Return(call.tasks, Some(convert_to_graphql_task(call.ret[1])))

\* Mutation.update_task_strict
Mutation_update_task_strict(tasks, task_id, task_input) ==
  LET task_update == TaskUpdateOf(UpdateData(task_input))
      call        == update_task_or_404(tasks, task_id, task_update)
  IN  IF call.raised # None
      THEN Raise(call.tasks, GraphQLError(call.raised[1], task_id))
      ELSE Return(call.tasks, convert_to_graphql_task(call.ret))

\* Mutation.delete_task
Mutation_delete_task(tasks, task_id) == delete_task(tasks, task_id)

\* Mutation.delete_task_strict
Mutation_delete_task_strict(tasks, task_id) ==
  LET call == delete_task_or_404(tasks, task_id)
  IN  IF call.raised # None
      THEN Raise(call.tasks, GraphQLError(call.raised[1], task_id))
      ELSE Return(call.tasks, call.ret)

\* The response to a document with one field: the value under data, or null
\* under data and the error under errors; the status is 200 either way.
GraphQLResponse(call) ==
  IF call.raised # None
  THEN [tasks |-> call.tasks, status_code |-> 200,
        body |-> [data |-> None, errors |-> <<call.raised[1]>>]]
  ELSE [tasks |-> call.tasks, status_code |-> 200,
        body |-> [data |-> call.ret, errors |-> <<>>]]

GraphQLTasks ==
  LET response == GraphQLResponse(Query_tasks(tasks_data))
  IN  /\ tasks_data' = response.tasks
      /\ UNCHANGED threads
      /\ result' = Requested("query tasks", 0, None, response)
      /\ UNCHANGED <<assigned, created>>

GraphQLTask(task_id) ==
  LET response == GraphQLResponse(Query_task(tasks_data, task_id))
  IN  /\ tasks_data' = response.tasks
      /\ UNCHANGED threads
      /\ result' = Requested("query task", task_id, None, response)
      /\ UNCHANGED <<assigned, created>>

GraphQLTaskStrict(task_id) ==
  LET response == GraphQLResponse(Query_task_strict(tasks_data, task_id))
  IN  /\ tasks_data' = response.tasks
      /\ UNCHANGED threads
      /\ result' = Requested("query taskStrict", task_id, None, response)
      /\ UNCHANGED <<assigned, created>>

GraphQLCreateTask(task_input) ==
  LET response == GraphQLResponse(Mutation_create_task(tasks_data, task_input))
  IN  /\ NewId(tasks_data) <= MaxId
      /\ tasks_data' = response.tasks
      /\ UNCHANGED threads
      /\ result' = Requested("mutation createTask", 0, Some(task_input), response)
      /\ assigned' = assigned \cup {response.body.data.id}
      /\ created' = Append(created, response.body.data.id)

GraphQLUpdateTask(task_id, task_input) ==
  LET response == GraphQLResponse(Mutation_update_task(tasks_data, task_id, task_input))
  IN  /\ tasks_data' = response.tasks
      /\ UNCHANGED threads
      /\ result' = Requested("mutation updateTask", task_id, Some(task_input), response)
      /\ UNCHANGED <<assigned, created>>

GraphQLUpdateTaskStrict(task_id, task_input) ==
  LET response == GraphQLResponse(Mutation_update_task_strict(tasks_data, task_id, task_input))
  IN  /\ tasks_data' = response.tasks
      /\ UNCHANGED threads
      /\ result' = Requested("mutation updateTaskStrict", task_id, Some(task_input), response)
      /\ UNCHANGED <<assigned, created>>

GraphQLDeleteTask(task_id) ==
  LET response == GraphQLResponse(Mutation_delete_task(tasks_data, task_id))
  IN  /\ tasks_data' = response.tasks
      /\ UNCHANGED threads
      /\ result' = Requested("mutation deleteTask", task_id, None, response)
      /\ created' = IF Len(response.tasks) < Len(tasks_data)
                    THEN Without(created, task_id) ELSE created
      /\ UNCHANGED assigned

GraphQLDeleteTaskStrict(task_id) ==
  LET response == GraphQLResponse(Mutation_delete_task_strict(tasks_data, task_id))
  IN  /\ tasks_data' = response.tasks
      /\ UNCHANGED threads
      /\ result' = Requested("mutation deleteTaskStrict", task_id, None, response)
      /\ created' = IF Len(response.tasks) < Len(tasks_data)
                    THEN Without(created, task_id) ELSE created
      /\ UNCHANGED assigned

\* Clients of the fields that answer an unknown id with null / false.
NextGraphQL ==
  \/ GraphQLTasks
  \/ \E task_id \in TaskIds : GraphQLTask(task_id)
  \/ \E task_input \in TaskInput : GraphQLCreateTask(task_input)
  \/ \E task_id \in TaskIds, task_input \in TaskUpdateInput :
       GraphQLUpdateTask(task_id, task_input)
  \/ \E task_id \in TaskIds : GraphQLDeleteTask(task_id)

SpecGraphQL == Init /\ [][NextGraphQL]_vars

\* Clients of the fields that answer an unknown id with an error.
NextGraphQLStrict ==
  \/ \E task_id \in TaskIds : GraphQLTaskStrict(task_id)
  \/ \E task_input \in TaskInput : GraphQLCreateTask(task_input)
  \/ \E task_id \in TaskIds, task_input \in TaskUpdateInput :
       GraphQLUpdateTaskStrict(task_id, task_input)
  \/ \E task_id \in TaskIds : GraphQLDeleteTaskStrict(task_id)

SpecGraphQLStrict == Init /\ [][NextGraphQLStrict]_vars

(***************************************************************************)
(* Claims C12, C17, C19, C20                                               *)
(***************************************************************************)

RestByIdOps ==
  {"GET /api/v1/tasks/{task_id}", "PUT /api/v1/tasks/{task_id}",
   "DELETE /api/v1/tasks/{task_id}"}

C19_FreshServiceHasSamples ==
  result.op = "__init__" =>
    /\ Len(get_all_tasks(tasks_data).ret) >= 3
    /\ get_task_by_id(tasks_data, 1).ret # None
    /\ get_task_by_id(tasks_data, 1).ret[1].id = 1
    /\ get_task_by_id(tasks_data, 1).ret[1].title = "Complete project documentation"
    /\ get_task_by_id(tasks_data, 1).ret[1].completed = FALSE
    /\ \A task_data \in TaskUpdate : update_task(tasks_data, 1, task_data).ret # None

\* C20: create_task makes get_all_tasks one task longer, a delete_task that
\* returns True makes it one task shorter, and update_task, the gets and a
\* delete_task that returns False leave its length unchanged.
C20_SizeChanges ==
  [][LET before == Len(get_all_tasks(tasks_data).ret)
         after  == Len(get_all_tasks(tasks_data').ret)
     IN  CASE result'.op = "create_task" -> after = before + 1
           [] result'.op = "delete_task" ->
                /\ result'.ret = (result'.task_id \in IdsOf(tasks_data))
                /\ after = IF result'.ret THEN before - 1 ELSE before
           [] OTHER -> after = before]_vars

C20_Witness ==
  /\ result.op = "delete_task"
  /\ result.ret = TRUE
  /\ Len(tasks_data) = 1
  /\ Cardinality(assigned) = 2

(***************************************************************************)
(* Claims C15, C16, C18: the GraphQL fields                                *)
(***************************************************************************)

\* Clients that create tasks and update them through both update fields.
NextGraphQLUpdate ==
  \/ \E task_input \in TaskInput : GraphQLCreateTask(task_input)
  \/ \E task_id \in TaskIds, task_input \in TaskUpdateInput :
       GraphQLUpdateTask(task_id, task_input)
  \/ \E task_id \in TaskIds, task_input \in TaskUpdateInput :
       GraphQLUpdateTaskStrict(task_id, task_input)

SpecGraphQLUpdate == Init /\ [][NextGraphQLUpdate]_vars

\* C15: task, updateTask and deleteTask answer an id that is not in the
\* store with null, null and false under data and with no errors; for an id
\* in the store they answer with the stored task, the task as updated, and
\* true.
C15_LenientAbsenceIsData ==
  [][result'.op \in {"query task", "mutation updateTask", "mutation deleteTask"} =>
       LET task_id == result'.task_id
           body    == result'.ret.body
           found   == task_id \in IdsOf(tasks_data)
       IN  /\ body.errors = <<>>
           /\ CASE result'.op = "query task" ->
                     IF found
                     THEN /\ body.data # None
                          /\ Some(body.data[1]) = FirstTask(tasks_data, task_id)
                     ELSE body.data = None
                [] result'.op = "mutation updateTask" ->
                     IF found
                     THEN /\ body.data # None
                          /\ Some(body.data[1]) = FirstTask(tasks_data', task_id)
                          /\ \A f \in FieldNames :
                               body.data[1][f] =
                                 IF result'.arg[1][f] # None
                                 THEN result'.arg[1][f][1]
                                 ELSE FirstTask(tasks_data, task_id)[1][f]
                     ELSE body.data = None
                [] OTHER ->
                     IF found
                     THEN body.data = TRUE /\ task_id \notin IdsOf(tasks_data')
                     ELSE body.data = FALSE]_vars

C15_Witness ==
  /\ result.op = "mutation updateTask"
  /\ result.task_id \notin IdsOf(tasks_data)
  /\ Len(tasks_data) > 0
  /\ result.ret.body = [data |-> None, errors |-> <<>>]

StrictOps == {"query taskStrict", "mutation updateTaskStrict", "mutation deleteTaskStrict"}

\* C16: taskStrict, updateTaskStrict and deleteTaskStrict answer an id that
\* is not in the store with one error whose message is "Task with ID {id} not
\* found" and whose extensions are code "TASK_NOT_FOUND", task_id the
\* requested id and http_status 404; for an id in the store they answer
\* without errors and with the payload of task, updateTask and deleteTask.
C16_StrictAbsenceIsError ==
  [][result'.op \in StrictOps =>
       LET task_id == result'.task_id
           body    == result'.ret.body
       IN  IF task_id \notin IdsOf(tasks_data)
           THEN body.errors =
                  <<[message    |-> <<"Task with ID ", task_id, " not found">>,
                     extensions |-> [code |-> "TASK_NOT_FOUND", task_id |-> task_id,
                                     http_status |-> 404]]>>
           ELSE /\ body.errors = <<>>
                /\ CASE result'.op = "query taskStrict" ->
                          Some(body.data) = Query_task(tasks_data, task_id).ret
                     [] result'.op = "mutation updateTaskStrict" ->
                          LET lenient == Mutation_update_task(tasks_data, task_id,
                                                              result'.arg[1])
                          IN  Some(body.data) = lenient.ret /\ tasks_data' = lenient.tasks
                     [] OTHER ->
                          LET lenient == Mutation_delete_task(tasks_data, task_id)
                          IN  body.data = lenient.ret /\ tasks_data' = lenient.tasks]_vars

C16_Witness ==
  /\ result.op = "query taskStrict"
  /\ result.task_id \notin IdsOf(tasks_data)
  /\ Len(tasks_data) > 0
  /\ Len(result.ret.body.errors) = 1
  /\ result.ret.body.errors[1].extensions.task_id = result.task_id

UpdateOps == {"mutation updateTask", "mutation updateTaskStrict"}

\* The patch the update resolvers hand to the store for an input.
PatchOf(task_input) == TaskUpdateOf(UpdateData(task_input))

\* C18 as stated: after updateTask or updateTaskStrict, whichever document
\* gave the input the resolver received, the patch handed to the store has a
\* value for exactly the fields the document supplied.
C18_PatchExactlySupplied ==
  result.op \in UpdateOps =>
    \A sent \in SentUpdateInputs :
      TaskUpdateInputOf(sent) = result.arg[1] =>
        \A f \in FieldNames : (PatchOf(result.arg[1])[f] # None) <=> sent[f].supplied

\* C18: after updateTask or updateTaskStrict, whichever document gave the
\* input the resolver received, the patch handed to the store has a value for
\* exactly the fields the document supplied with a value that is not null,
\* and it is that value; and a field left out or supplied as null keeps its
\* stored value.
C18_PatchSuppliedNonNull ==
  /\ [](result.op \in UpdateOps =>
          \A sent \in SentUpdateInputs :
            TaskUpdateInputOf(sent) = result.arg[1] =>
              \A f \in FieldNames :
                /\ (PatchOf(result.arg[1])[f] # None)
                     <=> (sent[f].supplied /\ sent[f].value # None)
                /\ PatchOf(result.arg[1])[f] # None
                     => PatchOf(result.arg[1])[f] = sent[f].value)
  /\ [][(result'.op \in UpdateOps /\ result'.task_id \in IdsOf(tasks_data)) =>
          LET before == FirstTask(tasks_data, result'.task_id)[1]
              after  == FirstTask(tasks_data', result'.task_id)[1]
          IN  \A f \in FieldNames : result'.arg[1][f] = None => after[f] = before[f]]_vars

C18_Witness ==
  /\ result.op = "mutation updateTaskStrict"
  /\ result.arg[1].title = None
  /\ result.arg[1].description = None
  /\ result.arg[1].completed = Some(TRUE)
  /\ result.ret.body.errors = <<>>
  /\ result.ret.body.data.title = "A"
  /\ result.ret.body.data.description = "B"
  /\ result.ret.body.data.completed = TRUE

(***************************************************************************)
(* Claims C11, C14: every entry point on the one TaskService               *)
(* (app/services/__init__.py: task_service_instance, bound by both         *)
(* routers/tasks.py and graphql/resolvers.py).                             *)
(***************************************************************************)

\* The patches drawn when all entry points run together.
SharedPatches ==
  {task_data \in TaskUpdate :
     /\ task_data.title \in {None, Some("A")}
     /\ task_data.description = None
     /\ task_data.completed \in {None, Some(TRUE)}}

NextShared ==
  \/ GetAllTasks
  \/ \E task_id \in TaskIds : GetTaskById(task_id)
  \/ \E task_id \in TaskIds : GetTaskByIdOr404(task_id)
  \/ \E task_data \in TaskCreate : CreateTask(task_data)
  \/ \E task_id \in TaskIds, task_data \in SharedPatches : UpdateTask(task_id, task_data)
  \/ \E task_id \in TaskIds, task_data \in SharedPatches : UpdateTaskOr404(task_id, task_data)
  \/ \E task_id \in TaskIds : DeleteTask(task_id)
  \/ \E task_id \in TaskIds : DeleteTaskOr404(task_id)
  \/ RestGetAllTasks
  \/ \E task_id \in TaskIds : RestGetTaskById(task_id)
  \/ \E body \in CreateBodies : RestCreateTask(body)
  \/ \E task_id \in TaskIds, task_data \in SharedPatches : RestUpdateTask(task_id, task_data)
  \/ \E task_id \in TaskIds : RestDeleteTask(task_id)
  \/ GraphQLTasks
  \/ \E task_id \in TaskIds : GraphQLTask(task_id)
  \/ \E task_id \in TaskIds : GraphQLTaskStrict(task_id)
  \/ \E task_input \in TaskInput : GraphQLCreateTask(task_input)
  \/ \E task_id \in TaskIds, task_input \in SharedPatches :
       GraphQLUpdateTask(task_id, task_input)
  \/ \E task_id \in TaskIds, task_input \in SharedPatches :
       GraphQLUpdateTaskStrict(task_id, task_input)
  \/ \E task_id \in TaskIds : GraphQLDeleteTask(task_id)
  \/ \E task_id \in TaskIds : GraphQLDeleteTaskStrict(task_id)

SpecShared == Init /\ [][NextShared]_vars

ByIdOps ==
  {"get_task_by_id", "get_task_by_id_or_404", "update_task", "update_task_or_404",
   "delete_task", "delete_task_or_404"}
  \cup RestByIdOps
  \cup {"query task", "mutation updateTask", "mutation deleteTask"}
  \cup StrictOps

\* C11: a get, update or delete of an id that is not in the store, through
\* the store's soft or strict methods, a REST route or a GraphQL field,
\* leaves the list of tasks exactly as it was (same tasks, same values, same
\* order), and with it what get_all_tasks returns and the next id.
C11_FailedLookupNoEffect ==
  [][(result'.op \in ByIdOps /\ result'.task_id \notin IdsOf(tasks_data)) =>
       /\ tasks_data' = tasks_data
       /\ get_all_tasks(tasks_data').ret = get_all_tasks(tasks_data).ret
       /\ NewId(tasks_data') = NewId(tasks_data)]_vars

C11_Witness ==
  /\ result.op = "update_task_or_404"
  /\ result.task_id \notin IdsOf(tasks_data)
  /\ result.raised # None
  /\ Len(tasks_data) = 2

app_routes ==
  {"GET /graphql", "POST /graphql", "POST /graphql-query", "GET /health",
   "GET /graphql-schema"}

\* The answer of app to a request: the handler's response when the route is
\* one of app's, the framework's 404 otherwise (the handler does not run).
app(route, tasks, response) ==
  IF route \in app_routes
  THEN response
  ELSE [tasks |-> tasks, status_code |-> 404, body |-> [detail |-> <<"Not Found">>]]

\* A REST request sent to app.
AppRequest(route, task_id, arg, response) ==
  LET served == app(route, tasks_data, response)
  IN  /\ tasks_data' = served.tasks
      /\ UNCHANGED threads
      /\ result' = Requested(route, task_id, arg, served)
      /\ assigned' = assigned \cup IdsOf(served.tasks)
      /\ created' = IF Len(served.tasks) > Len(tasks_data)
                    THEN Append(created, served.tasks[Len(served.tasks)].id)
                    ELSE IF Len(served.tasks) < Len(tasks_data)
                         THEN Without(created, task_id) ELSE created

AppGetAllTasks ==
  AppRequest("GET /api/v1/tasks/", 0, None, router_get_all_tasks(tasks_data))

AppGetTaskById(task_id) ==
  AppRequest("GET /api/v1/tasks/{task_id}", task_id, None,
             router_get_task_by_id(tasks_data, task_id))

AppCreateTask(body) ==
  /\ ValidateTaskCreate(body) # None => NewId(tasks_data) <= MaxId
  /\ AppRequest("POST /api/v1/tasks/", 0, Some(body), router_create_task(tasks_data, body))

AppUpdateTask(task_id, task_data) ==
  AppRequest("PUT /api/v1/tasks/{task_id}", task_id, Some(task_data),
             router_update_task(tasks_data, task_id, task_data))

AppDeleteTask(task_id) ==
  AppRequest("DELETE /api/v1/tasks/{task_id}", task_id, None,
             router_delete_task(tasks_data, task_id))

\* Clients of app: the REST paths, and the GraphQL fields through /graphql.
NextApp ==
  \/ AppGetAllTasks
  \/ \E task_id \in TaskIds : AppGetTaskById(task_id)
  \/ \E body \in CreateBodies : AppCreateTask(body)
  \/ \E task_id \in TaskIds, task_data \in TaskUpdate : AppUpdateTask(task_id, task_data)
  \/ \E task_id \in TaskIds : AppDeleteTask(task_id)
  \/ \E task_id \in TaskIds : GraphQLTask(task_id)
  \/ \E task_input \in TaskInput : GraphQLCreateTask(task_input)
  \/ \E task_id \in TaskIds : GraphQLDeleteTask(task_id)

SpecApp == Init /\ [][NextApp]_vars

\* C13: on app, POST /api/v1/tasks/ with a valid body answers 201 with the
\* new task, which is then in the store; GET and PUT /api/v1/tasks/{id}
\* answer 200 for an id in the store and DELETE answers 204 and removes it;
\* GET answers 404 for an id that is not in the store.
C13_RestLifecycle ==
  [][CASE result'.op = "POST /api/v1/tasks/" ->
            (/\ result'.arg[1].title # None
             /\ result'.arg[1].description # None
             /\ result'.arg[1].completed \in {"missing", "true", "false"})
              => /\ result'.ret.status_code = 201
                 /\ result'.ret.body.id \in IdsOf(tasks_data') \ IdsOf(tasks_data)
       [] result'.op = "GET /api/v1/tasks/{task_id}" ->
            result'.ret.status_code =
              IF result'.task_id \in IdsOf(tasks_data) THEN 200 ELSE 404
       [] result'.op = "PUT /api/v1/tasks/{task_id}" ->
            result'.task_id \in IdsOf(tasks_data) => result'.ret.status_code = 200
       [] result'.op = "DELETE /api/v1/tasks/{task_id}" ->
            result'.task_id \in IdsOf(tasks_data)
              => /\ result'.ret.status_code = 204
                 /\ result'.task_id \notin IdsOf(tasks_data')
       [] OTHER -> TRUE]_vars

(***************************************************************************)
(* Claims C21, C24, C25, C27, C28: the store's methods called one at a     *)
(* time                                                                    *)
(***************************************************************************)

\* C21: update_task on an existing task writes every field of the patch that
\* is not None, also False and the empty string, into the stored task and
\* into the task it returns; only None counts as absent.
C21_PresentFieldsOverwrite ==
  [][(result'.op = "update_task" /\ result'.task_id \in IdsOf(tasks_data)) =>
       LET after == FirstTask(tasks_data', result'.task_id)
       IN  /\ after # None
           /\ result'.ret # None
           /\ \A f \in FieldNames :
                result'.arg[1][f] # None =>
                  /\ after[1][f] = result'.arg[1][f][1]
                  /\ result'.ret[1][f] = result'.arg[1][f][1]]_vars

\* A patch of falsy values has been written over a task created with other
\* values.
C21_Witness ==
  /\ result.op = "update_task"
  /\ result.arg = Some([title |-> Some(""), description |-> Some(""),
                        completed |-> Some(FALSE)])
  /\ result.ret = Some(Task(2, "", "", FALSE))
  /\ FirstTask(tasks_data, 2) = Some(Task(2, "", "", FALSE))
  /\ FirstTask(tasks_data, 1) = Some(Task(1, "A", "B", TRUE))

C25_IdsAscending ==
  /\ \A i \in 1..Len(tasks_data) : tasks_data[i].id >= 1
  /\ \A i, j \in 1..Len(tasks_data) : i < j => tasks_data[i].id < tasks_data[j].id
  /\ tasks_data # <<>> => tasks_data[Len(tasks_data)].id = Max(IdsOf(tasks_data), 0)

\* The older of two tasks has been deleted: the list starts at id 2.
C25_Witness ==
  /\ result.op = "delete_task"
  /\ result.ret = TRUE
  /\ Len(tasks_data) = 1
  /\ tasks_data[1].id = 2

\* C27: when update_task returns a task T, get_task_by_id of that id right
\* afterwards returns T, and each field of T is the patch's value where the
\* patch has one and the value stored before the update where it has none.
C27_UpdateReturnsStored ==
  [][(result'.op = "update_task" /\ result'.ret # None) =>
       LET T      == result'.ret[1]
           before == FirstTask(tasks_data, result'.task_id)
       IN  /\ get_task_by_id(tasks_data', result'.task_id).ret = Some(T)
           /\ T.id = result'.task_id
           /\ before # None
           /\ \A f \in FieldNames :
                T[f] = IF result'.arg[1][f] # None
                       THEN result'.arg[1][f][1] ELSE before[1][f]]_vars

\* update_task has returned the second task, completed, and get returns it.
C27_Witness ==
  /\ result.op = "update_task"
  /\ result.arg = Some([title |-> None, description |-> Some("B"), completed |-> Some(TRUE)])
  /\ result.ret = Some(Task(2, "A", "B", TRUE))
  /\ get_task_by_id(tasks_data, 2).ret = result.ret

\* C28: for an existing id, a second update_task with the same patch leaves
\* the list as the first left it and returns the same task; and an
\* update_task whose patch has no field returns the task as stored and leaves
\* the list unchanged.
C28_UpdateIdempotent ==
  [][(result'.op = "update_task" /\ result'.task_id \in IdsOf(tasks_data)) =>
       LET again == update_task(tasks_data', result'.task_id, result'.arg[1])
       IN  /\ again.tasks = tasks_data'
           /\ again.ret = result'.ret
           /\ (\A f \in FieldNames : result'.arg[1][f] = None) =>
                /\ tasks_data' = tasks_data
                /\ result'.ret = FirstTask(tasks_data, result'.task_id)]_vars

\* The patch completed = true has been applied to a task that is now completed.
C28_Witness ==
  /\ result.op = "update_task"
  /\ result.arg = Some([title |-> None, description |-> None, completed |-> Some(TRUE)])
  /\ result.ret # None
  /\ result.ret[1].completed = TRUE
  /\ update_task(tasks_data, result.task_id, result.arg[1]).tasks = tasks_data

(***************************************************************************)
(* Claims C23, C26: failures and reads over every entry point              *)
(***************************************************************************)

SoftOps == {"get_all_tasks", "get_task_by_id", "create_task", "update_task", "delete_task"}

StrictStoreOps == {"get_task_by_id_or_404", "update_task_or_404", "delete_task_or_404"}

RestOps == {"GET /api/v1/tasks/", "POST /api/v1/tasks/"} \cup RestByIdOps

ReadOps ==
  {"get_all_tasks", "get_task_by_id", "get_task_by_id_or_404",
   "GET /api/v1/tasks/", "GET /api/v1/tasks/{task_id}",
   "query tasks", "query task", "query taskStrict"}

\* What the read named op answers on the list tasks.
ReadAgain(op, task_id, tasks) ==
  LET OfCall(call) == [ret |-> call.ret, raised |-> call.raised]
      OfResponse(response) ==
        [ret |-> [status_code |-> response.status_code, body |-> response.body],
         raised |-> None]
  IN  CASE op = "get_all_tasks" -> OfCall(get_all_tasks(tasks))
        [] op = "get_task_by_id" -> OfCall(get_task_by_id(tasks, task_id))
        [] op = "get_task_by_id_or_404" -> OfCall(get_task_by_id_or_404(tasks, task_id))
        [] op = "GET /api/v1/tasks/" -> OfResponse(router_get_all_tasks(tasks))
        [] op = "GET /api/v1/tasks/{task_id}" ->
             OfResponse(router_get_task_by_id(tasks, task_id))
        [] op = "query tasks" -> OfResponse(GraphQLResponse(Query_tasks(tasks)))
        [] op = "query task" -> OfResponse(GraphQLResponse(Query_task(tasks, task_id)))
        [] OTHER -> OfResponse(GraphQLResponse(Query_task_strict(tasks, task_id)))

\* C26: get_all_tasks, get_task_by_id, get_task_by_id_or_404, the REST GET
\* routes and the GraphQL fields tasks, task and taskStrict leave the list as
\* it was, whether the id exists or not, and the same read made again right
\* away answers the same.
C26_ReadsHaveNoEffect ==
  [][result'.op \in ReadOps =>
       /\ tasks_data' = tasks_data
       /\ ReadAgain(result'.op, result'.task_id, tasks_data')
            = [ret |-> result'.ret, raised |-> result'.raised]]_vars

\* The GraphQL list has been read on a store of two tasks, which are still
\* there.
C26_Witness ==
  /\ result.op = "query tasks"
  /\ Len(result.ret.body.data) = 2
  /\ Len(tasks_data) = 2

(***************************************************************************)
(* Claim C30: the /graphql-query endpoint of app/main.py, which executes   *)
(* the document on the same schema and answers with a dict it builds       *)
(* itself.                                                                 *)
(***************************************************************************)

\* str(error) of an error raised by a resolver: the message followed by the
\* place of the field in the document.
Str(error) == error.message \o <<"\n\nGraphQL request:", "location">>

\* Slip: the errors are passed on as the execution produced them.
graphql_query_formatted(call) ==
  IF call.raised # None
  THEN [tasks |-> call.tasks, status_code |-> 200,
        body |-> [data |-> None, errors |-> <<call.raised[1]>>]]
  ELSE [tasks |-> call.tasks, status_code |-> 200, body |-> [data |-> call.ret]]

\* graphql_query: {"data": result.data}, and when there are errors an
\* "errors" list of {"message": str(error)}.
graphql_query(call) ==
  IF call.raised # None
  THEN [tasks |-> call.tasks, status_code |-> 200,
        body |-> [data |-> None, errors |-> <<[message |-> Str(call.raised[1])]>>]]
  ELSE [tasks |-> call.tasks, status_code |-> 200, body |-> [data |-> call.ret]]

\* The resolver of a field of the schema, on the list tasks.
Resolve(field, tasks, task_id, arg) ==
  CASE field = "task" -> Query_task(tasks, task_id)
    [] field = "taskStrict" -> Query_task_strict(tasks, task_id)
    [] field = "createTask" -> Mutation_create_task(tasks, arg[1])
    [] field = "updateTaskStrict" -> Mutation_update_task_strict(tasks, task_id, arg[1])
    [] OTHER -> Mutation_delete_task_strict(tasks, task_id)

\* A document with one field posted to /graphql-query.
GraphQLQuery(field, task_id, arg) ==
  LET response == graphql_query(Resolve(field, tasks_data, task_id, arg))
  IN  /\ tasks_data' = response.tasks
      /\ UNCHANGED threads
      /\ result' = Requested("POST /graphql-query", task_id,
                             Some([field |-> field, input |-> arg]), response)
      /\ assigned' = assigned \cup IdsOf(response.tasks)
      /\ created' = IF Len(response.tasks) > Len(tasks_data)
                    THEN Append(created, response.tasks[Len(response.tasks)].id)
                    ELSE IF Len(response.tasks) < Len(tasks_data)
                         THEN Without(created, task_id) ELSE created

GraphQLQueryTask(task_id) == GraphQLQuery("task", task_id, None)

GraphQLQueryTaskStrict(task_id) == GraphQLQuery("taskStrict", task_id, None)

GraphQLQueryCreateTask(task_input) ==
  /\ NewId(tasks_data) <= MaxId
  /\ GraphQLQuery("createTask", 0, Some(task_input))

GraphQLQueryUpdateTaskStrict(task_id, task_input) ==
  GraphQLQuery("updateTaskStrict", task_id, Some(task_input))

GraphQLQueryDeleteTaskStrict(task_id) == GraphQLQuery("deleteTaskStrict", task_id, None)

\* Clients of /graphql-query.
NextGraphQLQuery ==
  \/ \E task_id \in TaskIds : GraphQLQueryTask(task_id)
  \/ \E task_id \in TaskIds : GraphQLQueryTaskStrict(task_id)
  \/ \E task_input \in TaskInput : GraphQLQueryCreateTask(task_input)
  \/ \E task_id \in TaskIds, task_input \in SharedPatches :
       GraphQLQueryUpdateTaskStrict(task_id, task_input)
  \/ \E task_id \in TaskIds : GraphQLQueryDeleteTaskStrict(task_id)

SpecGraphQLQuery == Init /\ [][NextGraphQLQuery]_vars

\* C30: a document posted to /graphql-query has the effect on the store and
\* the data that the same field has through /graphql; its response has an
\* errors list exactly when /graphql's has errors, of the same length, and
\* each of its errors has a message and nothing else: a strict field on an
\* unknown id answers with one error without extensions.
C30_QueryEndpointDropsExtensions ==
  [][result'.op = "POST /graphql-query" =>
       LET field   == result'.arg[1].field
           body    == result'.ret.body
           graphql == GraphQLResponse(Resolve(field, tasks_data, result'.task_id,
                                              result'.arg[1].input))
           strict  == field \in {"taskStrict", "updateTaskStrict", "deleteTaskStrict"}
       IN  /\ tasks_data' = graphql.tasks
           /\ body.data = graphql.body.data
           /\ result'.ret.status_code = graphql.status_code
           /\ ("errors" \in DOMAIN body) <=> (graphql.body.errors # <<>>)
           /\ "errors" \in DOMAIN body =>
                /\ Len(body.errors) = Len(graphql.body.errors)
                /\ \A i \in 1..Len(body.errors) : DOMAIN body.errors[i] = {"message"}
           /\ (strict /\ result'.task_id \notin IdsOf(tasks_data)) =>
                /\ "errors" \in DOMAIN body
                /\ Len(body.errors) = 1
                /\ "extensions" \notin DOMAIN body.errors[1]
                /\ "extensions" \in DOMAIN graphql.body.errors[1]]_vars

\* taskStrict has been asked through /graphql-query for an id that is not in
\* the store, which holds a task.
C30_Witness ==
  /\ result.op = "POST /graphql-query"
  /\ result.arg[1].field = "taskStrict"
  /\ result.task_id \notin IdsOf(tasks_data)
  /\ Len(tasks_data) > 0
  /\ "errors" \in DOMAIN result.ret.body
  /\ DOMAIN result.ret.body.errors[1] = {"message"}

(***************************************************************************)
(* Claims C22, C29: threads calling the one TaskService with no lock       *)
(* (app/services/__init__.py: task_service_instance; the class takes no    *)
(* lock).  A call is a sequence of steps, one per access to self.tasks_data *)
(* and the dicts in it, and steps of different threads interleave.          *)
(***************************************************************************)

\* The inputs of the calls the threads make.
ThreadCreates == {[title |-> "A", description |-> "B", completed |-> FALSE]}

ThreadPatches == {[title |-> None, description |-> None, completed |-> Some(TRUE)]}

\* task_dict, a reference to a dict: the dict at a place of the list, or a
\* dict that has been popped off the list and lives on in the reference.
InList(index) == [in_list |-> TRUE, index |-> index]

Detached(dict) == [in_list |-> FALSE, dict |-> dict]

Deref(tasks, task_dict) == IF task_dict.in_list THEN tasks[task_dict.index] ELSE task_dict.dict

\* What a reference held by another thread refers to after pop(index).
AfterPop(tasks, index, frame) ==
  IF frame.pc # "update_task:write" \/ ~frame.task_dict.in_list
  THEN frame
  ELSE IF frame.task_dict.index = index + 1
       THEN [frame EXCEPT !.task_dict = Detached(tasks[index + 1])]
       ELSE IF frame.task_dict.index > index + 1
            THEN [frame EXCEPT !.task_dict = InList(frame.task_dict.index - 1)]
            ELSE frame

\* Slip: the id is computed again under the append.
AppendTask_rescan(tasks, new_id, task_data) == create_task(tasks, task_data)

\* create_task from "new_task = {...}" on, with the new_id of the scan
AppendTask(tasks, new_id, task_data) ==
  LET new_task == [id |-> new_id, title |-> task_data.title,
                   description |-> task_data.description,
                   completed |-> task_data.completed]
  IN  Return(Append(tasks, new_task),
             Task(new_task.id, new_task.title, new_task.description, new_task.completed))

\* Slip: the list is searched again before the task is returned.
WriteFields_recheck(tasks, task_dict, task_data) ==
  LET patched == ApplyPatch(Deref(tasks, task_dict), task_data)
  IN  IF task_dict.in_list
      THEN Return([tasks EXCEPT ![task_dict.index] = patched],
                  Some(Task(patched.id, patched.title, patched.description,
                            patched.completed)))
      ELSE Return(tasks, None)

\* update_task from "if task_data.title is not None" on: the fields are
\* written into the dict task_dict refers to and the Task is built from it.
WriteFields(tasks, task_dict, task_data) ==
  LET patched == ApplyPatch(Deref(tasks, task_dict), task_data)
  IN  Return(IF task_dict.in_list
             THEN [tasks EXCEPT ![task_dict.index] = patched] ELSE tasks,
             Some(Task(patched.id, patched.title, patched.description,
                       patched.completed)))

\* create_task, line "new_id = max(...) + 1"
CreateTaskScan(t, task_data) ==
  /\ threads[t] = Idle
  /\ NewId(tasks_data) <= MaxId
  /\ threads' = [threads EXCEPT ![t] = [pc |-> "create_task:append",
                                        task_data |-> task_data,
                                        new_id |-> NewId(tasks_data)]]
  /\ UNCHANGED <<tasks_data, result, assigned, created>>

\* create_task, from the append to the return
CreateTaskAppend(t) ==
  /\ threads[t].pc = "create_task:append"
  /\ LET call == AppendTask(tasks_data, threads[t].new_id, threads[t].task_data)
     IN  /\ tasks_data' = call.tasks
         /\ result' = Called("create_task", 0, Some(threads[t].task_data), call)
         /\ assigned' = assigned \cup {call.ret.id}
         /\ created' = [i \in 1..Len(call.tasks) |-> call.tasks[i].id]
  /\ threads' = [threads EXCEPT ![t] = Idle]

\* update_task / update_task_or_404, the lookup "task_dict = next(...)" and,
\* when nothing is found, the return of None / the raise
UpdateTaskLookup(t, op, task_id, task_data) ==
  /\ threads[t] = Idle
  /\ LET i == FirstIndex(tasks_data, task_id)
     IN  IF i = None
         THEN /\ result' = Called(op, task_id, Some(task_data),
                                  IF op = "update_task"
                                  THEN Return(tasks_data, None)
                                  ELSE Raise(tasks_data, TaskNotFoundException(task_id)))
              /\ UNCHANGED threads
         ELSE /\ threads' = [threads EXCEPT ![t] = [pc |-> "update_task:write", op |-> op,
                                                    task_id |-> task_id,
                                                    task_data |-> task_data,
                                                    task_dict |-> InList(i[1] + 1)]]
              /\ UNCHANGED result
  /\ UNCHANGED <<tasks_data, assigned, created>>

\* update_task / update_task_or_404, the field writes and the return
UpdateTaskWrite(t) ==
  /\ threads[t].pc = "update_task:write"
  /\ LET call == WriteFields(tasks_data, threads[t].task_dict, threads[t].task_data)
         \* update_task_or_404: "if not task: raise TaskNotFoundException(task_id)"
         or_404 == IF call.ret = None
                   THEN Raise(call.tasks, TaskNotFoundException(threads[t].task_id))
                   ELSE Return(call.tasks, call.ret[1])
     IN  /\ tasks_data' = call.tasks
         /\ result' = Called(threads[t].op, threads[t].task_id, Some(threads[t].task_data),
                             IF threads[t].op = "update_task" THEN call ELSE or_404)
  /\ threads' = [threads EXCEPT ![t] = Idle]
  /\ UNCHANGED <<assigned, created>>

\* delete_task, the scan "task_index = next(...)" and, when nothing is found,
\* the return of False
DeleteTaskScan(t, task_id) ==
  /\ threads[t] = Idle
  /\ LET i == FirstIndex(tasks_data, task_id)
     IN  IF i = None
         THEN /\ result' = Called("delete_task", task_id, None, Return(tasks_data, FALSE))
              /\ UNCHANGED threads
         ELSE /\ threads' = [threads EXCEPT ![t] = [pc |-> "delete_task:pop",
                                                    task_id |-> task_id,
                                                    task_index |-> i[1]]]
              /\ UNCHANGED result
  /\ UNCHANGED <<tasks_data, assigned, created>>

\* delete_task, "self.tasks_data.pop(task_index)" and the return of True;
\* pop raises IndexError when the list has become too short for task_index
DeleteTaskPop(t) ==
  /\ threads[t].pc = "delete_task:pop"
  /\ LET index == threads[t].task_index
     IN  IF index < Len(tasks_data)
         THEN /\ tasks_data' = Pop(tasks_data, index)
              /\ result' = Called("delete_task", threads[t].task_id, None,
                                  Return(Pop(tasks_data, index), TRUE))
              /\ threads' = [u \in Threads |->
                               IF u = t THEN Idle ELSE AfterPop(tasks_data, index, threads[u])]
              /\ created' = [i \in 1..(Len(tasks_data) - 1) |-> Pop(tasks_data, index)[i].id]
         ELSE /\ tasks_data' = tasks_data
              /\ result' = Called("delete_task", threads[t].task_id, None,
                                  Raise(tasks_data, [exception |-> "IndexError"]))
              /\ threads' = [threads EXCEPT ![t] = Idle]
              /\ created' = created
  /\ UNCHANGED assigned

NextThreads ==
  \E t \in Threads :
    \/ \E task_data \in ThreadCreates : CreateTaskScan(t, task_data)
    \/ CreateTaskAppend(t)
    \/ \E op \in {"update_task", "update_task_or_404"}, task_id \in TaskIds,
          task_data \in ThreadPatches : UpdateTaskLookup(t, op, task_id, task_data)
    \/ UpdateTaskWrite(t)
    \/ \E task_id \in TaskIds : DeleteTaskScan(t, task_id)
    \/ DeleteTaskPop(t)

SpecThreads == Init /\ [][NextThreads]_vars

\* C22: with no lock around create_task, the id a create appends is the one
\* its own scan computed, whatever was appended since: a create that scans
\* while another create is between its scan and its append is given the id
\* the other one holds whenever the list has not moved, and an append whose
\* id is by then in the list leaves two tasks sharing that id.
C22_ConcurrentCreatesShareId ==
  [][\A t \in Threads :
       /\ (threads[t] = Idle /\ threads'[t].pc = "create_task:append")
            => /\ threads'[t].new_id = Max(IdsOf(tasks_data), 0) + 1
               /\ \A u \in Threads \ {t} :
                    (threads[u].pc = "create_task:append"
                       /\ threads[u].new_id = Max(IdsOf(tasks_data), 0) + 1)
                      => threads'[t].new_id = threads'[u].new_id
       /\ (threads[t].pc = "create_task:append" /\ threads'[t] = Idle)
            => /\ result'.op = "create_task"
               /\ result'.raised = None
               /\ result'.ret.id = threads[t].new_id
               /\ Len(tasks_data') = Len(tasks_data) + 1
               /\ \A i \in 1..Len(tasks_data) : tasks_data'[i] = tasks_data[i]
               /\ tasks_data'[Len(tasks_data')].id = threads[t].new_id
               /\ threads[t].new_id \in IdsOf(tasks_data)
                    => \E i \in 1..Len(tasks_data) :
                         tasks_data'[i].id = tasks_data'[Len(tasks_data')].id]_vars

\* Two creates have scanned the empty list before either appended, and both
\* have appended: the list holds two tasks with id 1.
C22_Witness ==
  /\ result.op = "create_task"
  /\ \A t \in Threads : threads[t] = Idle
  /\ Len(tasks_data) = 2
  /\ tasks_data[1].id = 1
  /\ tasks_data[2].id = 1
  /\ result.ret.id = 1

\* C29: with no lock around update_task, field writes that come after a
\* delete has popped the dict the lookup found still succeed: update_task
\* returns the patched task, update_task_or_404 raises nothing, the list is
\* left as the delete left it, and get_task_by_id of that id returns None
\* as long as no task of that id is in the list.
C29_UpdateAfterDeleteSucceeds ==
  [][\A t \in Threads :
       (/\ threads[t].pc = "update_task:write"
        /\ ~threads[t].task_dict.in_list
        /\ threads'[t] = Idle)
         => LET dict == threads[t].task_dict.dict
                task == IF result'.op = "update_task" THEN result'.ret[1] ELSE result'.ret
            IN  /\ result'.op = threads[t].op
                /\ result'.task_id = threads[t].task_id
                /\ dict.id = threads[t].task_id
                /\ result'.raised = None
                /\ result'.op = "update_task" => result'.ret # None
                /\ task = Task(dict.id,
                               IF threads[t].task_data.title # None
                               THEN threads[t].task_data.title[1] ELSE dict.title,
                               IF threads[t].task_data.description # None
                               THEN threads[t].task_data.description[1] ELSE dict.description,
                               IF threads[t].task_data.completed # None
                               THEN threads[t].task_data.completed[1] ELSE dict.completed)
                /\ tasks_data' = tasks_data
                /\ threads[t].task_id \notin IdsOf(tasks_data')
                     => get_task_by_id(tasks_data', threads[t].task_id).ret = None]_vars

\* update_task_or_404 looked task 1 up, a delete removed it, and the writes
\* then returned task 1 as completed: the list is empty.
C29_Witness ==
  /\ result.op = "update_task_or_404"
  /\ result.task_id = 1
  /\ result.raised = None
  /\ result.ret.id = 1
  /\ result.ret.completed
  /\ tasks_data = <<>>
  /\ get_task_by_id(tasks_data, 1).ret = None

====
